---- MODULE Spec2Model ----
(***************************************************************************)
(* A model of ball-and-paddle.py: the round loop of BallGame.run, the      *)
(* kinematics and collision response of Ball, the movement of Paddle, the  *)
(* round Clock and the ledger of HighScoreCounter.                         *)
(*                                                                         *)
(* Numbers.  The program keeps positions and angles in Python floats.      *)
(* The model keeps them as fixed-point integers with Scale units per       *)
(* pixel and per degree, so that a ball can sit between two pixels.        *)
(* Clock.time is counted in ticks of 1/frequency seconds.                  *)
(***************************************************************************)
EXTENDS Integers, Sequences, FiniteSets, TLC

\* Fixed-point resolution: units per pixel and per degree.
Scale == 2

\* screen.get_size(): BallGame takes the arena from the screen it is given.
ArenaWidth == 220
ArenaHeight == 160

\* The longest Clock.time, in ticks, a round of the model runs to.
MaxTime == 20
\* The most Ball objects constructed in one round (the first one included).
MaxBalls == 3
\* The most events one pygame.event.get() returns.
MaxEvents == 1
\* The most draws of one paddle hit that differ from the plain ones.
MaxOdd == 1
\* The longest Clock.time, in ticks, of the clock on its own (ClockSpec).
MaxTicks == 60
\* main() goes on to the next run() while _scores holds fewer entries.
MaxScored == 1
\* The ledger on its own (ScoreSpec): the longest _scores it starts from,
\* the longest time, in ticks, of an entry, and the most add_result calls.
MaxLedger == 4
MaxSeconds == 2
MaxAdds == 2

\* Ball
RADIUSES == <<10, 50>>
NORMAL_ANGLE_DELTA == 2
CRAZY_ANGLE_DELTA == 20
NORMAL_SPEEDRANGE == <<10, 15>>
CRAZY_SPEEDRANGE == <<-10, 40>>
EDGE_AVOID_ANGLE == 3
PADDLE_RANDOMNESS == <<-10, 10>>

\* Paddle
HEIGHT == 25
WIDTHS == <<100, 100, 100, 75, 200>>
SPEED == 15

\* Clock(self, 60)
FREQUENCY == 60
MAX_SCORES == 3

VARIABLES
    balls,          \* BallGame.balls: a sequence of Ball records
    paddle,         \* BallGame.paddle: a Paddle record
    launched,       \* BallGame.launched
    double_speed,   \* BallGame.double_speed
    clock,          \* BallGame.clock: [time, running]
    pc,             \* the statement of BallGame.run that runs next
    idx,            \* position of the `for ball in self.balls` of the collision pass
    nballs,         \* Ball objects constructed in this round (object identities)
    keys,           \* what pygame.event.get() returned, until the collision pass starts
    sides,          \* the _on_hit calls of the latest ball.hitcheck(), in order
    scorecounter,   \* BallGame.scorecounter: _scores, and the lines appended to the file
    result          \* this run(): frames ticked while launched, and what
                    \* add_result was handed and returned (seconds -1: not called)

vars == <<balls, paddle, launched, double_speed, clock, pc, idx, nballs,
          keys, sides, scorecounter, result>>

----------------------------------------------------------------------------
(* Arithmetic *)

Abs(n) == IF n < 0 THEN -n ELSE n

\* n/d rounded to the nearest integer (d > 0), halves away from zero.
RoundDiv(n, d) == IF n >= 0 THEN (2 * n + d) \div (2 * d)
                            ELSE -((2 * (-n) + d) \div (2 * d))

\* The set of the elements of a sequence.
Range(s) == {s[k] : k \in DOMAIN s}

\* self.angle %= 360, on fixed-point degrees.  Python's % with a positive
\* modulus is never negative, like TLA+'s.
Normalize(angle) == angle % (360 * Scale)

\* math.sin(math.radians(angle)) * k, in fixed-point units, for an integer
\* k and any angle: the half wave of the sine is Bhaskara's rational
\* approximation 4q/(40500 - q), q = a(180 - a), exact at 0, 30, 90, 150
\* and 180 degrees.
SinTimes(angle, k) ==
    LET a    == Normalize(angle)
        half == 180 * Scale
        h    == IF a < half THEN a ELSE a - half
        q    == h * (half - h)
        sgn  == IF a < half THEN 1 ELSE -1
    IN  RoundDiv(sgn * k * 4 * q * Scale, 40500 * Scale * Scale - q)

\* math.cos(math.radians(angle)) * k, likewise.
CosTimes(angle, k) == SinTimes(angle + 90 * Scale, k)

----------------------------------------------------------------------------
(* Ball *)

\* Ball.__init__: a new ball rests on the paddle plane in the middle of the
\* arena and points up.  is_fake is random.choice([False, False, True]).
NewBall(id, fake) ==
    [id          |-> id,
     radius      |-> RADIUSES[1],
     x           |-> (ArenaWidth \div 2) * Scale,
     y           |-> (ArenaHeight - HEIGHT - RADIUSES[1]) * Scale,
     angle       |-> 270 * Scale,
     crazy_speed |-> FALSE,
     crazy_angle |-> FALSE,
     blinking    |-> FALSE,
     is_fake     |-> fake]

\* The delta of the angle offset Ball.move draws, random.randint(-delta, delta).
AngleDelta(b) == IF b.crazy_angle THEN CRAZY_ANGLE_DELTA ELSE NORMAL_ANGLE_DELTA

\* The range Ball.move draws its two speeds from.
SpeedRange(b) == IF b.crazy_speed THEN CRAZY_SPEEDRANGE ELSE NORMAL_SPEEDRANGE

\* A move that adds twice the offset drawn.
MoveAngleTwice(b, off) == b.angle + 2 * off * Scale

\* The angle Ball.move hands to math.radians: the stored angle plus the
\* offset drawn, not normalized.
MoveAngle(b, off) == b.angle + off * Scale

\* Ball.move while launched, for the draws off (angle offset, in degrees),
\* sy and sx (the two speeds).
BallMove(b, dbl, off, sy, sx) ==
    LET angle == MoveAngle(b, off)
        mult  == IF dbl THEN 2 ELSE 1
    IN  [b EXCEPT !.angle = angle,
                  !.x = b.x + mult * CosTimes(angle, sx),
                  !.y = b.y + mult * SinTimes(angle, sy)]

\* A left wall that mirrors the angle and does not look where it points.
OnHitLeftNoAvoid(b) ==
    [b EXCEPT !.angle = Normalize(180 * Scale - b.angle), !.x = b.radius * Scale]

\* Ball._on_hit('a'): the left wall.
OnHitLeft(b) ==
    LET a == Normalize(180 * Scale - b.angle)
    IN  [b EXCEPT !.angle = IF 90 * Scale <= a /\ a <= 180 * Scale
                                THEN (90 - EDGE_AVOID_ANGLE) * Scale
                            ELSE IF 180 * Scale <= a /\ a <= 270 * Scale
                                THEN (270 + EDGE_AVOID_ANGLE) * Scale
                            ELSE a,
                  !.x = b.radius * Scale]

\* Ball._on_hit('d'): the right wall.
OnHitRight(b) ==
    LET a == Normalize(180 * Scale - b.angle)
    IN  [b EXCEPT !.angle = IF a >= 270 * Scale
                                THEN (270 - EDGE_AVOID_ANGLE) * Scale
                            ELSE IF a <= 90 * Scale
                                THEN (90 + EDGE_AVOID_ANGLE) * Scale
                            ELSE a,
                  !.x = (ArenaWidth - b.radius) * Scale]

\* A top wall that mirrors the angle and does not look where it points.
OnHitTopNoAvoid(b) ==
    [b EXCEPT !.angle = Normalize(-b.angle), !.y = b.radius * Scale]

\* Ball._on_hit('w'): the top wall.  The two tests are two ifs, not if/elif.
OnHitTop(b) ==
    LET a  == Normalize(-b.angle)
        a1 == IF 180 * Scale <= a /\ a <= 270 * Scale
                  THEN (180 - EDGE_AVOID_ANGLE) * Scale ELSE a
        a2 == IF a1 >= 270 * Scale THEN EDGE_AVOID_ANGLE * Scale ELSE a1
    IN  [b EXCEPT !.angle = a2, !.y = b.radius * Scale]

\* Ball.do_random, without its call of game.do_random: d holds the draws.
BallDoRandom(b, d) ==
    [b EXCEPT !.crazy_angle = d.crazy_angle,
              !.crazy_speed = d.crazy_speed,
              !.radius = d.radius,
              !.blinking = d.bblink]

\* A paddle response that puts the ball on the plane before do_random.
OnHitPaddleOldRadius(b, paddlespot, d) ==
    BallDoRandom([b EXCEPT !.angle = Normalize(-b.angle - paddlespot + d.jitter * Scale),
                           !.y = (ArenaHeight - HEIGHT - b.radius) * Scale], d)

\* Ball._on_hit('s', paddlespot): the paddle, jitter drawn from
\* PADDLE_RANDOMNESS.  The ball is put on the paddle plane after do_random.
OnHitPaddle(b, paddlespot, d) ==
    LET a  == Normalize(-b.angle - paddlespot + d.jitter * Scale)
        b1 == BallDoRandom([b EXCEPT !.angle = a], d)
    IN  [b1 EXCEPT !.y = (ArenaHeight - HEIGHT - b1.radius) * Scale]

\* The three wall tests of Ball.hitcheck, in the order left, right, top.
HitWalls(b) ==
    LET b1 == IF b.x < b.radius * Scale THEN OnHitLeft(b) ELSE b
        b2 == IF b1.x > (ArenaWidth - b1.radius) * Scale THEN OnHitRight(b1) ELSE b1
    IN  IF b2.y < b2.radius * Scale THEN OnHitTop(b2) ELSE b2

\* bigpaddle // 2 and -bigpaddle // 2 of Ball.hitcheck: Python's unary minus
\* binds tighter than //, and // rounds down, as \div does.
BigPaddle(b, p) == b.radius + p.width + b.radius
WindowHigh(b, p) == BigPaddle(b, p) \div 2
WindowLow(b, p) == (-BigPaddle(b, p)) \div 2

\* A paddle test that does not return for a fake ball.
HitsPaddleFakeToo(b, p) ==
    /\ b.y > (ArenaHeight - HEIGHT - b.radius) * Scale
    /\ ((-(b.radius + p.width + b.radius)) \div 2) * Scale < b.x - p.x * Scale
    /\ b.x - p.x * Scale < ((b.radius + p.width + b.radius) \div 2) * Scale

\* Whether the paddle test of Ball.hitcheck calls _on_hit('s') for a ball
\* that went through the wall tests.
BelowPlane(b) == b.y > (ArenaHeight - HEIGHT - b.radius) * Scale
PaddleSpot(b, p) == b.x - p.x * Scale
HitsPaddle(b, p) ==
    /\ BelowPlane(b)
    /\ ~b.is_fake
    /\ WindowLow(b, p) * Scale < PaddleSpot(b, p)
    /\ PaddleSpot(b, p) < WindowHigh(b, p) * Scale

----------------------------------------------------------------------------
(* Paddle *)

\* Paddle.__init__
NewPaddle ==
    [x         |-> ArenaWidth \div 2,
     direction |-> 0,
     flip      |-> FALSE,
     blinking  |-> FALSE,
     width     |-> WIDTHS[1]]

\* Paddle.do_random: d holds the draws.  x is left as it is.
PaddleDoRandom(p, d) ==
    [p EXCEPT !.blinking = d.pblink, !.flip = d.flip, !.width = d.width]

\* Paddle.move
PaddleMove(p, dbl) ==
    LET d0 == p.direction * SPEED
        d1 == IF p.flip THEN -d0 ELSE d0
        d2 == IF dbl THEN d1 * 2 ELSE d1
        x1 == p.x + d2
        x2 == IF x1 < p.width \div 2 THEN p.width \div 2 ELSE x1
    IN  [p EXCEPT !.x = IF x2 > ArenaWidth - p.width \div 2
                            THEN ArenaWidth - p.width \div 2 ELSE x2]

----------------------------------------------------------------------------
(* Clock.  time is in ticks: wait adds 1/frequency seconds, one tick. *)

NewClock == [time |-> 0, running |-> FALSE]

\* A start that resets a running clock too.
ClockRestart(c) == [time |-> 0, running |-> TRUE]

\* Clock.start
ClockStart(c) == IF c.running THEN c ELSE [time |-> 0, running |-> TRUE]

\* Clock.stop
ClockStop(c) == [c EXCEPT !.running = FALSE]

\* A wait that counts while the clock is stopped.
ClockWaitAlways(c) == [c EXCEPT !.time = c.time + 1]

\* Clock.wait
ClockWait(c) == IF c.running THEN [c EXCEPT !.time = c.time + 1] ELSE c

----------------------------------------------------------------------------
(* HighScoreCounter.  An entry of _scores is the tuple (seconds, name);    *)
(* seconds is a Clock.time, in ticks.                                      *)

\* What easygui.enterbox returns: None (cancel), or the text typed.
Answers == {"cancel", "", "ann", "bob"}

\* name.strip() or "???"
NameOf(answer) == IF answer = "" THEN "???" ELSE answer

\* The order of the names as Python compares strings.
NameRank(name) == CASE name = "???" -> 0 [] name = "ann" -> 1 [] OTHER -> 2

\* e > f for two tuples (seconds, name).
Above(e, f) ==
    \/ e.seconds > f.seconds
    \/ e.seconds = f.seconds /\ NameRank(e.name) > NameRank(f.name)

\* list.sort(reverse=True)
RECURSIVE InsertReverse(_, _)
InsertReverse(e, s) ==
    IF s = <<>> THEN <<e>>
    ELSE IF Above(Head(s), e) THEN <<Head(s)>> \o InsertReverse(e, Tail(s))
    ELSE <<e>> \o s

RECURSIVE SortReverse(_)
SortReverse(s) ==
    IF s = <<>> THEN <<>> ELSE InsertReverse(Head(s), SortReverse(Tail(s)))

\* HighScoreCounter.__init__, and read() when there is no score file.
NewScoreCounter == [_scores |-> <<>>, file |-> <<>>]

\* Nothing handed to add_result yet in this run().
NoResult == [ticks |-> 0, seconds |-> -1, added |-> "-"]

\* Whether add_result goes on to the name prompt.
Prompts(sc, seconds) ==
    ~(Len(sc._scores) >= MAX_SCORES /\ seconds < sc._scores[MAX_SCORES].seconds)

\* '%.4f' % seconds, in ten-thousandths of a second.
Printed(seconds) == RoundDiv(seconds * 10000, FREQUENCY)

\* HighScoreCounter.add_result: the counter afterwards.
AddResult(sc, seconds, answer) ==
    IF ~Prompts(sc, seconds) \/ answer = "cancel" THEN sc
    ELSE [_scores |-> SortReverse(Append(sc._scores,
                          [seconds |-> seconds, name |-> NameOf(answer)])),
          file    |-> Append(sc.file,
                          [seconds |-> Printed(seconds), name |-> NameOf(answer)])]

\* HighScoreCounter.add_result: what it returns.
AddResultReturn(sc, seconds, answer) ==
    IF ~Prompts(sc, seconds) THEN "False"
    ELSE IF answer = "cancel" THEN "None"
    ELSE "True"

----------------------------------------------------------------------------
(* The random draws.  AllHitDraws and AllMoveDraws are everything the      *)
(* program can draw; the round loop explores the draws named Loop...       *)

\* One paddle hit draws: the jitter of _on_hit('s'), Ball.do_random,
\* Paddle.do_random and BallGame.do_random (spawn: no ball, a ball, a fake ball).
HitDraws(jitters) ==
    [jitter      : jitters,
     crazy_angle : BOOLEAN,
     crazy_speed : BOOLEAN,
     radius      : Range(RADIUSES),
     bblink      : BOOLEAN,
     pblink      : BOOLEAN,
     flip        : BOOLEAN,
     width       : Range(WIDTHS),
     spawn       : {"none", "real", "fake"},
     double      : BOOLEAN]

AllHitDraws == HitDraws(PADDLE_RANDOMNESS[1] .. PADDLE_RANDOMNESS[2])

\* The draws that change nothing: no jitter, the values a new ball, a new
\* paddle and a new round have, no ball appended.
PlainDraw ==
    [jitter |-> 0, crazy_angle |-> FALSE, crazy_speed |-> FALSE,
     radius |-> RADIUSES[1], bblink |-> FALSE, pblink |-> FALSE,
     flip |-> FALSE, width |-> WIDTHS[1], spawn |-> "none", double |-> FALSE]

\* The draws with at most n values that differ from PlainDraw, among the
\* values alts gives each draw.
RECURSIVE OddDraws(_, _)
OddDraws(n, alts) ==
    IF n = 0 THEN {PlainDraw}
    ELSE LET less == OddDraws(n - 1, alts)
         IN  less \cup UNION {{[d EXCEPT ![f] = v] : v \in alts[f]} :
                                 d \in less, f \in DOMAIN PlainDraw}

\* What each draw of a paddle hit can be, the jitter among jitters.
DrawValues(jitters) ==
    [jitter      |-> jitters,
     crazy_angle |-> BOOLEAN,
     crazy_speed |-> BOOLEAN,
     radius      |-> Range(RADIUSES),
     bblink      |-> BOOLEAN,
     pblink      |-> BOOLEAN,
     flip        |-> BOOLEAN,
     width       |-> Range(WIDTHS),
     spawn       |-> {"none", "real", "fake"},
     double      |-> BOOLEAN]

\* The round loop explores the hits with at most MaxOdd draws that differ
\* from PlainDraw, the jitter at its ends or in the middle.
LoopHitDraws ==
    OddDraws(MaxOdd, DrawValues({PADDLE_RANDOMNESS[1], 0, PADDLE_RANDOMNESS[2]}))

\* Every outcome of one Ball.move while launched: offs are the angle
\* offsets and speeds the speeds drawn from.
BallMoves(b, dbl, offs, speeds) ==
    {BallMove(b, dbl, off, sy, sx) : off \in offs, sy \in speeds, sx \in speeds}

AllMoves(b, dbl) ==
    BallMoves(b, dbl, -AngleDelta(b) .. AngleDelta(b),
              SpeedRange(b)[1] .. SpeedRange(b)[2])

\* The round loop draws no angle offset and the fastest speed.
LoopMoves(b, dbl) == BallMoves(b, dbl, {0}, {SpeedRange(b)[2]})

\* The ends and the middle of the offsets, the ends of the speeds.
MidMoves(b, dbl) ==
    BallMoves(b, dbl, {-AngleDelta(b), 0, AngleDelta(b)},
              {SpeedRange(b)[1], SpeedRange(b)[2]})

\* The sequences whose k-th element is drawn from sets[k].
RECURSIVE SeqProduct(_)
SeqProduct(sets) ==
    IF sets = <<>> THEN {<<>>}
    ELSE {<<h>> \o t : h \in Head(sets), t \in SeqProduct(Tail(sets))}

----------------------------------------------------------------------------
(* BallGame.run *)

\* run() up to its loop: one ball that is not fake, a new paddle.  The
\* clock is BallGame's, made once in __init__.
Init ==
    /\ balls = <<NewBall(1, FALSE)>>
    /\ paddle = NewPaddle
    /\ launched = FALSE
    /\ double_speed = FALSE
    /\ clock = NewClock
    /\ pc = "wait"
    /\ idx = 1
    /\ nballs = 1
    /\ keys = <<>>
    /\ sides = <<>>
    /\ scorecounter = NewScoreCounter
    /\ result = NoResult

\* self.clock.wait(), the first statement of the loop body.
Wait ==
    /\ pc = "wait"
    /\ balls # <<>>
    /\ clock.running => clock.time < MaxTime
    /\ clock' = ClockWait(clock)
    /\ result' = [result EXCEPT !.ticks = IF launched THEN @ + 1 ELSE @]
    /\ pc' = "move"
    /\ UNCHANGED <<balls, paddle, launched, double_speed, idx, nballs, keys, sides,
                 scorecounter>>

\* self.paddle.move(); for ball in self.balls: ball.move(), the moves drawn
\* as the round loop draws them or, if wide, as MidMoves does.
MoveWith(wide) ==
    /\ pc = "move"
    /\ paddle' = PaddleMove(paddle, double_speed)
    /\ IF launched
          THEN balls' \in SeqProduct([k \in DOMAIN balls |->
                   IF wide THEN MidMoves(balls[k], double_speed)
                           ELSE LoopMoves(balls[k], double_speed)])
          ELSE balls' = balls
    /\ pc' = "cull"
    /\ UNCHANGED <<launched, double_speed, clock, idx, nballs, keys, sides,
                 scorecounter, result>>

Move == MoveWith(FALSE)

\* A cull that removes a ball as soon as it is below the paddle plane.
TooLowAtPlane(b) == b.y > (ArenaHeight - HEIGHT - b.radius) * Scale

\* A cull that does not wait for the whole ball to be below the edge.
TooLowNoRadius(b) == b.y > ArenaHeight * Scale

\* Whether the loop over self.balls[:] removes the ball.
TooLow(b) == b.y > (ArenaHeight + b.radius) * Scale

\* A cull that does not centre the ball.
CentreForgotten(b, p) == b

\* ball.x = self.paddle.x
Centre(b, p) == [b EXCEPT !.x = p.x * Scale]

\* A cull followed by the collision pass, the frame not rendered.
CullThenCollide ==
    /\ pc = "cull"
    /\ balls' = IF launched
                   THEN SelectSeq(balls, LAMBDA b : ~TooLow(b))
                   ELSE [k \in DOMAIN balls |-> Centre(balls[k], paddle)]
    /\ pc' = "hit"
    /\ idx' = 1
    /\ UNCHANGED <<paddle, launched, double_speed, clock, nballs, keys, sides,
                 scorecounter, result>>

\* for ball in self.balls[:]: remove the balls that are too low or, before
\* the launch, centre the ball on the paddle.
Cull ==
    /\ pc = "cull"
    /\ balls' = IF launched
                   THEN SelectSeq(balls, LAMBDA b : ~TooLow(b))
                   ELSE [k \in DOMAIN balls |-> Centre(balls[k], paddle)]
    /\ pc' = "draw"
    /\ UNCHANGED <<paddle, launched, double_speed, clock, idx, nballs, keys, sides,
                 scorecounter, result>>

\* screen.fill ... pygame.display.flip(): the frame is drawn from the state
\* as it is, nothing changes.
Draw ==
    /\ pc = "draw"
    /\ pc' = "events"
    /\ UNCHANGED <<balls, paddle, launched, double_speed, clock, idx, nballs,
                   keys, sides,
                 scorecounter, result>>

\* The events the loop tells apart.  left is K_LEFT or K_a, right is
\* K_RIGHT or K_d, launch is space, return, up or w, new is F2, quit is q
\* or pygame.QUIT, other is h or F1 (a dialog).
Keys == {"left_down", "right_down", "left_up", "right_up",
         "launch", "new", "other", "quit"}

\* The body of `for event in pygame.event.get()` for one event, on the
\* state g = [balls, paddle, launched, clock, exited].
HandleEvent(g, ev) ==
    IF g.exited THEN g
    ELSE IF ev = "left_down" THEN [g EXCEPT !.paddle.direction = -1]
    ELSE IF ev = "right_down" THEN [g EXCEPT !.paddle.direction = 1]
    ELSE IF ev = "launch" THEN
        IF ~g.launched
           THEN [g EXCEPT !.clock = ClockStart(g.clock), !.launched = TRUE]
           ELSE g
    ELSE IF ev = "new" THEN [g EXCEPT !.balls = <<>>]
    ELSE IF ev = "quit" THEN [g EXCEPT !.exited = TRUE]
    ELSE IF ev = "left_up" THEN
        IF g.paddle.direction = -1 THEN [g EXCEPT !.paddle.direction = 0] ELSE g
    ELSE IF ev = "right_up" THEN
        IF g.paddle.direction = 1 THEN [g EXCEPT !.paddle.direction = 0] ELSE g
    ELSE g

RECURSIVE HandleEvents(_, _)
HandleEvents(g, evs) ==
    IF evs = <<>> THEN g
    ELSE HandleEvents(HandleEvent(g, Head(evs)), Tail(evs))

\* What pygame.event.get() can return: up to MaxEvents events.
EventLists == UNION {[1..n -> Keys] : n \in 0..MaxEvents}

\* The state HandleEvent works on.
Game == [balls |-> balls, paddle |-> paddle, launched |-> launched,
         clock |-> clock, exited |-> FALSE]

\* for event in pygame.event.get(): ...
Events ==
    /\ pc = "events"
    /\ \E evs \in EventLists :
         LET g == HandleEvents(Game, evs)
         IN  /\ balls' = g.balls
             /\ paddle' = g.paddle
             /\ launched' = g.launched
             /\ clock' = g.clock
             /\ pc' = IF g.exited THEN "exit" ELSE "hit"
             /\ keys' = evs
    /\ idx' = 1
    /\ sides' = <<>>
    /\ UNCHANGED <<double_speed, nballs,
                 scorecounter, result>>

\* The _on_hit calls the wall tests of Ball.hitcheck make for b.
WallSides(b) ==
    LET b1 == IF b.x < b.radius * Scale THEN OnHitLeft(b) ELSE b
        b2 == IF b1.x > (ArenaWidth - b1.radius) * Scale THEN OnHitRight(b1) ELSE b1
    IN  (IF b.x < b.radius * Scale THEN <<"a">> ELSE <<>>)
        \o (IF b1.x > (ArenaWidth - b1.radius) * Scale THEN <<"d">> ELSE <<>>)
        \o (IF b2.y < b2.radius * Scale THEN <<"w">> ELSE <<>>)

\* A do_random that appends two balls.
SpawnedTwice(d) ==
    IF d.spawn = "none" THEN <<>>
    ELSE <<NewBall(nballs + 1, d.spawn = "fake"), NewBall(nballs + 1, d.spawn = "fake")>>

\* BallGame.do_random: the ball it appends, if it appends one.
Spawned(d) ==
    IF d.spawn = "none" THEN <<>>
    ELSE <<NewBall(nballs + 1, d.spawn = "fake")>>

\* ball.hitcheck() of the ball the collision pass is at, when the paddle
\* test fires: Paddle.do_random, then _on_hit('s'), which ends in
\* Ball.do_random and BallGame.do_random.  draws are the draws explored.
HitPaddleWith(draws) ==
    /\ pc = "hit"
    /\ idx <= Len(balls)
    /\ LET b == HitWalls(balls[idx])
       IN  /\ HitsPaddle(b, paddle)
           /\ \E d \in draws :
                /\ d.spawn # "none" => nballs < MaxBalls
                /\ paddle' = PaddleDoRandom(paddle, d)
                /\ balls' = [balls EXCEPT ![idx] =
                                OnHitPaddle(b, PaddleSpot(b, paddle), d)]
                             \o Spawned(d)
                /\ nballs' = nballs + Len(Spawned(d))
                /\ double_speed' = d.double
           /\ sides' = WallSides(balls[idx]) \o <<"s">>
    /\ idx' = idx + 1
    /\ keys' = <<>>
    /\ UNCHANGED <<launched, clock, pc,
                 scorecounter, result>>

HitPaddle == HitPaddleWith(LoopHitDraws)

\* ball.hitcheck() when the paddle test does not fire: only the walls.
HitMiss ==
    /\ pc = "hit"
    /\ idx <= Len(balls)
    /\ LET b == HitWalls(balls[idx])
       IN  /\ ~HitsPaddle(b, paddle)
           /\ balls' = [balls EXCEPT ![idx] = b]
    /\ sides' = WallSides(balls[idx])
    /\ idx' = idx + 1
    /\ keys' = <<>>
    /\ UNCHANGED <<paddle, launched, double_speed, clock, pc, nballs,
                 scorecounter, result>>

\* The end of `for ball in self.balls: ball.hitcheck()`: back to the test
\* of the while loop.
HitDone ==
    /\ pc = "hit"
    /\ idx > Len(balls)
    /\ pc' = "wait"
    /\ keys' = <<>>
    /\ sides' = <<>>
    /\ UNCHANGED <<balls, paddle, launched, double_speed, clock, idx, nballs,
                 scorecounter, result>>

\* The loop ends when balls is empty: self.clock.stop(), and
\* self.scorecounter.add_result(self.clock.time) with the player's answer
\* to the name prompt, if it prompts.
EndRound ==
    /\ pc = "wait"
    /\ balls = <<>>
    /\ clock' = ClockStop(clock)
    /\ \E answer \in Answers :
          /\ scorecounter' = AddResult(scorecounter, clock.time, answer)
          /\ result' = [result EXCEPT
                           !.seconds = clock.time,
                           !.added = AddResultReturn(scorecounter, clock.time, answer)]
    /\ pc' = "over"
    /\ UNCHANGED <<balls, paddle, launched, double_speed, idx, nballs, keys, sides>>

\* main(): while True: game.run().  run() makes the first ball and the
\* paddle and clears launched and double_speed; the clock is kept.
NewRound ==
    /\ pc = "over"
    /\ Len(scorecounter._scores) < MaxScored
    /\ result' = NoResult
    /\ balls' = <<NewBall(1, FALSE)>>
    /\ paddle' = NewPaddle
    /\ launched' = FALSE
    /\ double_speed' = FALSE
    /\ nballs' = 1
    /\ idx' = 1
    /\ pc' = "wait"
    /\ UNCHANGED <<clock, keys, sides, scorecounter>>

Next ==
    \/ Wait
    \/ Move
    \/ Cull
    \/ Draw
    \/ Events
    \/ HitPaddle
    \/ HitMiss
    \/ HitDone
    \/ EndRound
    \/ NewRound

Spec == Init /\ [][Next]_vars

----------------------------------------------------------------------------
(* The round with fairness: the loop of run() and the loop of main() keep  *)
(* running; nothing makes a key arrive.                                    *)

FairSpec == Init /\ [][Next]_vars /\ WF_vars(Next)

----------------------------------------------------------------------------
(* The clock on its own: any sequence of start(), stop() and wait().  pc   *)
(* names the latest call.                                                  *)

ClockInit ==
    /\ balls = <<NewBall(1, FALSE)>>
    /\ paddle = NewPaddle
    /\ launched = FALSE
    /\ double_speed = FALSE
    /\ clock = NewClock
    /\ pc = "c_init"
    /\ idx = 1
    /\ nballs = 1
    /\ keys = <<>>
    /\ sides = <<>>
    /\ scorecounter = NewScoreCounter
    /\ result = NoResult

ClockCall(after, name) ==
    /\ clock' = after
    /\ pc' = name
    /\ UNCHANGED <<balls, paddle, launched, double_speed, idx, nballs, keys, sides,
                 scorecounter, result>>

CallStart == ClockCall(ClockStart(clock), "c_start")

CallStop == ClockCall(ClockStop(clock), "c_stop")

CallWait == clock.time < MaxTicks /\ ClockCall(ClockWait(clock), "c_wait")

ClockNext == CallStart \/ CallStop \/ CallWait

ClockSpec == ClockInit /\ [][ClockNext]_vars

----------------------------------------------------------------------------
(* The ledger on its own: add_result on every small ledger read() can     *)
(* have loaded.                                                            *)

\* The entries of the ledgers ScoreSpec starts from.
Entries == [seconds : 0..MaxSeconds, name : {"???", "ann"}]

\* What read() leaves in _scores: entries sorted, the best first.
Ledgers ==
    {s \in UNION {[1..n -> Entries] : n \in 0..MaxLedger} : SortReverse(s) = s}

ScoreInit ==
    /\ balls = <<NewBall(1, FALSE)>>
    /\ paddle = NewPaddle
    /\ launched = FALSE
    /\ double_speed = FALSE
    /\ clock = NewClock
    /\ pc = "s_read"
    /\ idx = 1
    /\ nballs = 1
    /\ keys = <<>>
    /\ sides = <<>>
    /\ scorecounter \in {[_scores |-> s, file |-> <<>>] : s \in Ledgers}
    /\ result = NoResult

\* add_result(seconds), with the player's answer to the prompt.
ScoreAdd ==
    /\ Len(scorecounter.file) < MaxAdds
    /\ \E seconds \in 0..MaxSeconds, answer \in Answers :
          /\ scorecounter' = AddResult(scorecounter, seconds, answer)
          /\ result' = [result EXCEPT
                           !.seconds = seconds,
                           !.added = AddResultReturn(scorecounter, seconds, answer)]
    /\ pc' = "s_add"
    /\ UNCHANGED <<balls, paddle, launched, double_speed, clock, idx, nballs,
                   keys, sides>>

ScoreNext == ScoreAdd

ScoreSpec == ScoreInit /\ [][ScoreNext]_vars

----------------------------------------------------------------------------
(* The direction keys on their own: the event loop of BallGame.run on      *)
(* every short sequence of presses and releases a keyboard can produce.    *)

\* The most key events KeySpec feeds to the event loop.
MaxKeys == 4

\* The keys that steer: pygame.K_LEFT, K_a, K_RIGHT, K_d.
KeyNames == {"LEFT", "a", "RIGHT", "d"}

\* The branch of the event loop a KEYDOWN or KEYUP of the key takes.
EventOf(key, down) ==
    IF key \in {"LEFT", "a"}
       THEN IF down THEN "left_down" ELSE "left_up"
       ELSE IF down THEN "right_down" ELSE "right_up"

\* The keys that are down after the events ks.
Held(ks) ==
    {k \in KeyNames :
        \E i \in DOMAIN ks :
            /\ ks[i].key = k
            /\ ks[i].down
            /\ \A j \in (i + 1)..Len(ks) : ks[j].key # k}

KeyInit ==
    /\ balls = <<NewBall(1, FALSE)>>
    /\ paddle = NewPaddle
    /\ launched = FALSE
    /\ double_speed = FALSE
    /\ clock = NewClock
    /\ pc = "k_run"
    /\ idx = 1
    /\ nballs = 1
    /\ keys = <<>>
    /\ sides = <<>>
    /\ scorecounter = NewScoreCounter
    /\ result = NoResult

\* One KEYDOWN (of a key that is up) or KEYUP (of a key that is down)
\* through the body of the event loop.
KeyEvent ==
    /\ Len(keys) < MaxKeys
    /\ \E key \in KeyNames, down \in BOOLEAN :
          /\ down <=> key \notin Held(keys)
          /\ keys' = Append(keys, [key |-> key, down |-> down])
          /\ paddle' = HandleEvent(Game, EventOf(key, down)).paddle
    /\ pc' = "k_event"
    /\ UNCHANGED <<balls, launched, double_speed, clock, idx, nballs, sides,
                   scorecounter, result>>

KeyNext == KeyEvent

KeySpec == KeyInit /\ [][KeyNext]_vars

----------------------------------------------------------------------------
(* A launched round picked up in the middle.  MidSpec starts either at a   *)
(* collision pass (pc = "hit") in the last frame the model runs, or at the *)
(* top of the loop one frame earlier, with balls and a paddle drawn from   *)
(* the sets below; it explores more of the random draws than Spec does.    *)

\* A ball as it can be in a launched round.
MidBall(id, r, x, y, angle, crazy, fake) ==
    [id |-> id, radius |-> r, x |-> x, y |-> y, angle |-> angle,
     crazy_speed |-> crazy, crazy_angle |-> crazy, blinking |-> FALSE,
     is_fake |-> fake]

\* The y of the paddle plane for a ball of radius r, in units.
Plane(r) == (ArenaHeight - HEIGHT - r) * Scale

\* Balls just through a wall (left, right, top, and the two top corners),
\* at every angle a move can leave, the fixed-point steps between whole
\* degrees included.
WallAngles == (-CRAZY_ANGLE_DELTA * Scale) .. ((360 + CRAZY_ANGLE_DELTA) * Scale)
WallBallsOf(r) ==
    {MidBall(1, r, x, y, a, FALSE, FALSE) :
        a \in WallAngles,
        x \in {r * Scale - 1, (ArenaWidth - r) * Scale + 1},
        y \in {r * Scale - 1, r * Scale + 1}}
    \cup
    {MidBall(1, r, (ArenaWidth \div 2) * Scale, r * Scale - 1, a, FALSE, FALSE) :
        a \in WallAngles}

WallBalls == UNION {WallBallsOf(r) : r \in Range(RADIUSES)}

\* The paddle of the pass-level states: in the middle, where every width fits.
MidPaddles ==
    {[x |-> ArenaWidth \div 2, direction |-> 0, flip |-> FALSE,
      blinking |-> FALSE, width |-> w] : w \in Range(WIDTHS)}

\* Distances from the paddle's centre, in units, around the two ends of the
\* hit window of a paddle of width w and a ball of radius r, and the centre.
Spots(r, w) ==
    LET big == r + w + r
    IN  UNION {{e - 2, e - 1, e, e + 1, e + 2} :
                  e \in {((-big) \div 2) * Scale, (big \div 2) * Scale}}
        \cup {-15 * Scale, 0, 7 * Scale}

\* Balls below the paddle plane of the paddle p.
PaddleBallsOf(p, r) ==
    {MidBall(1, r, p.x * Scale + ps, Plane(r) + dy, a * Scale, FALSE, FALSE) :
        ps \in Spots(r, p.width), dy \in {1, 10 * Scale}, a \in {30, 90, 150}}

\* Fake balls below the paddle plane of the paddle p: a fake ball is never
\* the first ball and has the radius it was made with.
FakePaddleBalls(p) ==
    {MidBall(2, RADIUSES[1], p.x * Scale + ps, Plane(RADIUSES[1]) + dy,
             a * Scale, FALSE, TRUE) :
        ps \in Spots(RADIUSES[1], p.width), dy \in {1, 10 * Scale},
        a \in {30, 90, 150}}

PaddleBalls(p) ==
    UNION {PaddleBallsOf(p, r) : r \in Range(RADIUSES)} \cup FakePaddleBalls(p)

\* Two balls that reach the paddle in the same collision pass.
PairBalls ==
    {<<MidBall(1, r, (ArenaWidth \div 2) * Scale - 5, Plane(r) + 3, 100 * Scale, FALSE, FALSE),
       MidBall(2, RADIUSES[1], (ArenaWidth \div 2) * Scale + 20, Plane(RADIUSES[1]) + 4, 80 * Scale, FALSE, fake)>> :
        r \in Range(RADIUSES), fake \in BOOLEAN}

\* Balls of a round at the top of the loop: inside the walls, near the top,
\* in the middle, just above the paddle plane and just above the bottom.
RealFrameBalls(r) ==
    {MidBall(1, r, x * Scale, y * Scale, a * Scale, crazy, FALSE) :
        crazy \in BOOLEAN,
        x \in {r + 3, ArenaWidth \div 2, ArenaWidth - r - 3},
        y \in {r + 3, ArenaHeight - HEIGHT - r - 3, ArenaHeight + r - 3},
        a \in {45, 135, 225, 315, 358, 2}}

FrameBalls ==
    UNION {RealFrameBalls(r) : r \in Range(RADIUSES)}
    \cup
    {MidBall(2, RADIUSES[1], x * Scale, y * Scale, a * Scale, FALSE, TRUE) :
        x \in {13, ArenaWidth \div 2, ArenaWidth - 13},
        y \in {13, ArenaHeight - HEIGHT - 13, ArenaHeight + 7},
        a \in {45, 135, 225, 315, 358, 2}}

\* Two balls at the top of the loop: one about to pass the bottom edge, and
\* a fake one that is below the paddle plane.
FramePairs ==
    {<<MidBall(1, r, (ArenaWidth \div 2) * Scale, (ArenaHeight + r - 3) * Scale,
               a * Scale, FALSE, FALSE),
       MidBall(2, RADIUSES[1], 13 * Scale, (ArenaHeight - HEIGHT - 3) * Scale,
               90 * Scale, FALSE, TRUE)>> :
        r \in Range(RADIUSES), a \in {45, 90}}

MidInit ==
    /\ launched = TRUE
    /\ scorecounter = NewScoreCounter
    /\ keys = <<>>
    /\ sides = <<>>
    /\ idx = 1
    /\ \/ /\ pc = "hit"
          /\ clock = [time |-> MaxTime, running |-> TRUE]
          /\ double_speed = FALSE
          /\ \/ /\ paddle \in MidPaddles
                /\ \E b \in WallBalls \cup PaddleBalls(paddle) : balls = <<b>>
                /\ nballs = balls[1].id
             \/ /\ paddle \in MidPaddles
                /\ balls \in PairBalls
                /\ nballs = 2
       \/ /\ pc = "wait"
          /\ clock = [time |-> MaxTime - 1, running |-> TRUE]
          /\ double_speed \in BOOLEAN
          /\ paddle \in {[x |-> ArenaWidth \div 2, direction |-> d, flip |-> FALSE,
                          blinking |-> FALSE, width |-> WIDTHS[1]] : d \in {0, 1}}
          /\ \/ \E b \in FrameBalls : balls = <<b>>
             \/ balls \in FramePairs
          /\ nballs = 2
    /\ result = [NoResult EXCEPT !.ticks = clock.time]

\* The draws of a paddle hit MidSpec explores: every jitter, and at most
\* MaxOdd draws that differ from PlainDraw.
MidHitDraws ==
    OddDraws(MaxOdd, DrawValues(PADDLE_RANDOMNESS[1] .. PADDLE_RANDOMNESS[2]))

MidMove == MoveWith(TRUE)

MidHitPaddle == HitPaddleWith(MidHitDraws)

MidNext ==
    \/ Wait
    \/ MidMove
    \/ Cull
    \/ Draw
    \/ Events
    \/ MidHitPaddle
    \/ HitMiss
    \/ HitDone
    \/ EndRound

MidSpec == MidInit /\ [][MidNext]_vars

----------------------------------------------------------------------------
(* Claims *)

\* C1: in every reachable state of a round the paddle is fully inside the
\* arena: width/2 <= paddle.x <= arena width - width/2 (doubled, to keep
\* the halves of an odd width).
C1_PaddleInsideArena ==
    /\ 2 * paddle.x >= paddle.width
    /\ 2 * paddle.x <= 2 * ArenaWidth - paddle.width

\* What C2 says of a state before the launch: one ball, the first one, not
\* fake, on the paddle (from the cull of a frame to the paddle.move of the
\* next), and nothing a mutation event or a spawn would have changed.
OnlyFirstBall ==
    /\ Len(balls) = 1
    /\ balls[1].id = 1
    /\ ~balls[1].is_fake
    /\ pc # "cull" => balls[1].x = paddle.x * Scale
    /\ nballs = 1
    /\ balls[1].radius = RADIUSES[1]
    /\ balls[1].y = (ArenaHeight - HEIGHT - RADIUSES[1]) * Scale
    /\ balls[1].angle = 270 * Scale
    /\ ~balls[1].crazy_angle /\ ~balls[1].crazy_speed /\ ~balls[1].blinking
    /\ paddle.width = WIDTHS[1] /\ ~paddle.flip /\ ~paddle.blinking
    /\ ~double_speed
    /\ "s" \notin Range(sides)

Ids(bs) == {bs[k].id : k \in DOMAIN bs}

\* A step that is one ball.hitcheck() of the collision pass: of balls[idx].
HitCheckStep == pc = "hit" /\ idx' = idx + 1

\* C3: the paddle response fires only when |ball.x - paddle.x| is less than
\* (radius + width + radius)/2, the halves of an odd total kept; a ball below
\* the plane outside that window gets no response: paddle, double_speed and
\* the number of balls stay, and the ball keeps its angle and its y.
C3_HitWindow ==
    [][HitCheckStep =>
        LET big    == balls[idx].radius + paddle.width + balls[idx].radius
            spot   == balls'[idx].x - paddle.x * Scale
            inside == 2 * Abs(spot) < big * Scale
        IN  /\ "s" \in Range(sides') => inside
            /\ ~inside =>
                  /\ paddle' = paddle
                  /\ double_speed' = double_speed
                  /\ Len(balls') = Len(balls)
                  /\ sides' = <<>> => balls'[idx] = balls[idx]
       ]_vars

\* C4: a fake ball never gets the paddle response: its hitcheck leaves the
\* paddle, double_speed and the number of balls alone, a fake ball has the
\* radius and the crazy flags it was made with all its life, it gets the
\* wall responses and the cull removes it once it is below the bottom edge.
C4_FakeBall ==
    /\ [][HitCheckStep /\ balls[idx].is_fake =>
            /\ "s" \notin Range(sides')
            /\ paddle' = paddle
            /\ double_speed' = double_speed
            /\ Len(balls') = Len(balls)
            /\ balls[idx].x < RADIUSES[1] * Scale =>
                  "a" \in Range(sides') /\ balls'[idx].x = RADIUSES[1] * Scale
            /\ balls[idx].x > (ArenaWidth - RADIUSES[1]) * Scale =>
                  "d" \in Range(sides')
                  /\ balls'[idx].x = (ArenaWidth - RADIUSES[1]) * Scale
            /\ balls[idx].y < RADIUSES[1] * Scale =>
                  "w" \in Range(sides') /\ balls'[idx].y = RADIUSES[1] * Scale
         ]_vars
    /\ [][pc = "cull" /\ launched =>
            \A k \in DOMAIN balls :
                balls[k].is_fake
                /\ balls[k].y > (ArenaHeight + RADIUSES[1]) * Scale
                => balls[k].id \notin Ids(balls')
         ]_vars
    /\ [](\A k \in DOMAIN balls :
             balls[k].is_fake =>
                 /\ balls[k].radius = RADIUSES[1]
                 /\ ~balls[k].crazy_angle
                 /\ ~balls[k].crazy_speed)

\* C4 witness: a fake ball below the paddle plane, within the hit window of
\* the paddle, has been hit-checked and is still where it was.
C4_Witness ==
    /\ pc = "hit"
    /\ idx > 1
    /\ balls[idx - 1].is_fake
    /\ sides = <<>>
    /\ balls[idx - 1].y > (ArenaHeight - HEIGHT - balls[idx - 1].radius) * Scale
    /\ 2 * Abs(balls[idx - 1].x - paddle.x * Scale) < paddle.width * Scale

\* C5: one ball.hitcheck() keeps every ball of the collection at its place
\* and appends no ball or one; it appends none when the paddle response did
\* not run, and the paddle response (so the mutation event) runs once.
C5_OneAppendPerHit ==
    [][HitCheckStep =>
        /\ Len(balls') \in {Len(balls), Len(balls) + 1}
        /\ \A k \in DOMAIN balls : balls'[k].id = balls[k].id
        /\ Cardinality({k \in DOMAIN sides' : sides'[k] = "s"}) <= 1
        /\ "s" \notin Range(sides') =>
              Len(balls') = Len(balls) /\ paddle' = paddle
              /\ double_speed' = double_speed
        /\ Len(balls') > Len(balls) =>
              /\ "s" \in Range(sides')
              /\ balls'[Len(balls')].id = nballs + 1
              /\ balls'[Len(balls')].id \notin Ids(balls)
              /\ nballs' = nballs + 1
       ]_vars

\* C5 witness: two balls were hit by the paddle in one collision pass (both
\* lie on the paddle plane now), the first hit appended a third ball, and
\* that ball was hit-checked in the same pass.
C5_Witness ==
    /\ pc = "hit"
    /\ idx = 4
    /\ Len(balls) = 3
    /\ clock.time = MaxTime
    /\ \A k \in {1, 2} :
          ~balls[k].is_fake
          /\ balls[k].y = (ArenaHeight - HEIGHT - balls[k].radius) * Scale
          /\ balls[k].angle > 180 * Scale
    /\ balls[3].id = 3

\* The model runs a launched round to Clock.time = MaxTime and no further.
AtHorizon == clock.running /\ clock.time = MaxTime

\* C6 (as stated): from any reachable state the round ends, balls becomes
\* empty (a run that leaves the program, or reaches the horizon of the
\* model, is not held against the claim).
C6_RoundTerminates == []<>(balls = <<>> \/ pc = "exit" \/ AtHorizon)

\* C6 (amended): balls becomes empty only when the cull of a launched round
\* removes balls that are all below the bottom edge, or by the new-round
\* key; the loop is left only with balls empty, and then it is left; no
\* ball that was removed comes back in the round.
C6_EndsOnlyWhenEmptied ==
    [][/\ balls # <<>> /\ balls' = <<>> =>
            \/ /\ pc = "cull"
               /\ launched
               /\ \A k \in DOMAIN balls :
                     balls[k].y > (ArenaHeight + balls[k].radius) * Scale
            \/ pc = "events" /\ "new" \in Range(keys')
       /\ pc' = "over" /\ pc # "over" =>
            pc = "wait" /\ balls = <<>> /\ balls' = <<>> /\ ~clock'.running
       /\ pc = "wait" /\ balls = <<>> => pc' = "over"
       /\ pc # "over" => \A id \in 1..nballs :
            id \notin Ids(balls) => id \notin Ids(balls')
      ]_vars

\* C6 witness: the cull of a launched round has just removed the last ball.
C6_Witness == pc = "draw" /\ launched /\ balls = <<>>

\* C7: a wait adds one tick (1/frequency seconds) to the time of a running
\* clock and nothing to a stopped one, so the time never goes down over
\* waits; stop keeps the time; start on a stopped clock sets it to 0.
C7_ClockSteps ==
    [][/\ pc' = "c_wait" =>
            /\ clock'.time = clock.time + (IF clock.running THEN 1 ELSE 0)
            /\ clock'.time >= clock.time
            /\ clock'.running = clock.running
       /\ pc' = "c_stop" => clock'.time = clock.time /\ ~clock'.running
       /\ pc' = "c_start" /\ ~clock.running =>
            clock'.time = 0 /\ clock'.running
      ]_vars

\* C7 witness: the clock ran, was stopped with time on it, and then waited.
C7_Witness == pc = "c_wait" /\ ~clock.running /\ clock.time > 1

\* Whether the event loop handles a launch key of the list ks (a quit
\* before it leaves the program first).
LaunchHandled(ks) ==
    \E i \in DOMAIN ks :
        ks[i] = "launch" /\ \A j \in 1..(i - 1) : ks[j] # "quit"

\* C8: the first launch key of a round sets launched, starts the clock and
\* sets its time to 0; once launched, key events change neither launched
\* nor the clock; launched is cleared only by the next round; and start()
\* on a running clock changes nothing.
C8_Launch ==
    /\ [][/\ pc = "events" /\ ~launched /\ LaunchHandled(keys') =>
               launched' /\ clock'.running /\ clock'.time = 0
          /\ ~launched /\ launched' =>
               pc = "events" /\ LaunchHandled(keys')
          /\ pc = "events" /\ launched => launched' /\ clock' = clock
          /\ launched /\ ~launched' => pc = "over"
         ]_vars
    /\ [](clock.running => ClockStart(clock) = clock)

\* C8 witness: a launch key arrived in a round launched some frames before.
C8_Witness ==
    /\ pc = "hit"
    /\ "launch" \in Range(keys)
    /\ launched
    /\ clock.running
    /\ clock.time > 1

\* The ball of the latest ball.hitcheck().
Checked == balls[idx - 1]

\* At least EDGE_AVOID_ANGLE away from the direction d (degrees) and from
\* d + 360.
Avoids(angle, d) ==
    /\ Abs(angle - d * Scale) >= EDGE_AVOID_ANGLE * Scale
    /\ Abs(angle - (d + 360) * Scale) >= EDGE_AVOID_ANGLE * Scale

\* C9 (as stated): after a wall response alone the ball touches the wall
\* and its angle is at least EDGE_AVOID_ANGLE away from 90 and 270 (left
\* and right wall), from 0 and 180 (top wall).
C9_WallAvoidsBand ==
    pc = "hit" /\ idx > 1 =>
        /\ sides = <<"a">> =>
              /\ Checked.x = Checked.radius * Scale
              /\ Avoids(Checked.angle, 90) /\ Avoids(Checked.angle, 270)
        /\ sides = <<"d">> =>
              /\ Checked.x = (ArenaWidth - Checked.radius) * Scale
              /\ Avoids(Checked.angle, 90) /\ Avoids(Checked.angle, 270)
        /\ sides = <<"w">> =>
              /\ Checked.y = Checked.radius * Scale
              /\ Avoids(Checked.angle, 0) /\ Avoids(Checked.angle, 180)

\* C9 (amended): after a wall response alone the ball touches the wall and
\* its angle is the mirror image of the angle before, when that points away
\* from the wall, and otherwise exactly EDGE_AVOID_ANGLE off the wall:
\* 87 or 273 (left), 93 or 267 (right), 3 or 177 (top).
C9_WallMirrorOrOffWall ==
    [][HitCheckStep =>
        LET before == balls[idx]
            after  == balls'[idx]
            mirror == (180 * Scale - before.angle) % (360 * Scale)
            flip   == (-before.angle) % (360 * Scale)
        IN  /\ sides' = <<"a">> =>
                  /\ after.x = before.radius * Scale
                  /\ \/ after.angle = mirror
                        /\ (mirror < 90 * Scale \/ mirror > 270 * Scale)
                     \/ after.angle \in {(90 - EDGE_AVOID_ANGLE) * Scale,
                                         (270 + EDGE_AVOID_ANGLE) * Scale}
            /\ sides' = <<"d">> =>
                  /\ after.x = (ArenaWidth - before.radius) * Scale
                  /\ \/ after.angle = mirror
                        /\ 90 * Scale < mirror /\ mirror < 270 * Scale
                     \/ after.angle \in {(90 + EDGE_AVOID_ANGLE) * Scale,
                                         (270 - EDGE_AVOID_ANGLE) * Scale}
            /\ sides' = <<"w">> =>
                  /\ after.y = before.radius * Scale
                  /\ \/ after.angle = flip /\ flip < 180 * Scale
                     \/ after.angle \in {EDGE_AVOID_ANGLE * Scale,
                                         (180 - EDGE_AVOID_ANGLE) * Scale}
       ]_vars

\* C9 witness: a ball has had the left-wall response alone and leaves it one
\* degree off the wall (it came in at 91 degrees).
C9_Witness ==
    /\ pc = "hit"
    /\ idx > 1
    /\ sides = <<"a">>
    /\ Checked.x = Checked.radius * Scale
    /\ Checked.angle = 89 * Scale

\* C10 (as stated): the angle Ball.move turns into radians is in [0, 360).
\* After the move (pc = "cull") the stored angle is the one it used.
C10_MoveAngleNormalized ==
    pc = "cull" /\ launched =>
        \A k \in DOMAIN balls :
            0 <= balls[k].angle /\ balls[k].angle < 360 * Scale

\* C10 (amended): Ball.move uses the stored angle plus its offset, at most
\* delta (2, or 20 for a crazy angle) either way, without normalizing it;
\* the angle is in [0, 360) after every collision response.
C10_MoveAngleWithinDelta ==
    /\ [][pc = "move" /\ launched =>
            \A k \in DOMAIN balls :
                Abs(balls'[k].angle - balls[k].angle)
                    <= (IF balls[k].crazy_angle THEN CRAZY_ANGLE_DELTA
                                                ELSE NORMAL_ANGLE_DELTA) * Scale
         ]_vars
    /\ [](pc = "hit" /\ idx > 1 /\ sides # <<>> =>
             0 <= Checked.angle /\ Checked.angle < 360 * Scale)

\* C10 witness: a move has just used a negative angle.
C10_Witness ==
    /\ pc = "cull"
    /\ launched
    /\ \E k \in DOMAIN balls : balls[k].angle < 0

\* C11: after the collision responses of one hitcheck the ball's radius is
\* 10 or 50 and its angle is in [0, 360); after a wall response the ball
\* touches that wall with the radius it has then; after the paddle response
\* it rests on the paddle plane of the radius it has after the mutation.
C11_ResponseDomains ==
    [][HitCheckStep /\ sides' # <<>> =>
        LET before == balls[idx]
            after  == balls'[idx]
            hit    == Range(sides')
        IN  /\ after.radius \in {10, 50}
            /\ 0 <= after.angle /\ after.angle < 360 * Scale
            /\ "a" \in hit => after.x = before.radius * Scale
            /\ "d" \in hit => after.x = (ArenaWidth - before.radius) * Scale
            /\ "w" \in hit => after.y = before.radius * Scale
            /\ "s" \notin hit => after.radius = before.radius
            /\ "s" \in hit =>
                  after.y = (ArenaHeight - HEIGHT - after.radius) * Scale
       ]_vars

\* C11 witness: one hitcheck ran the left-wall response and then the paddle
\* response; the mutation made the ball big and it rests on the plane of a
\* big ball.
C11_Witness ==
    /\ pc = "hit"
    /\ idx > 1
    /\ sides = <<"a", "s">>
    /\ Checked.radius = RADIUSES[2]
    /\ Checked.x = RADIUSES[1] * Scale
    /\ Checked.y = (ArenaHeight - HEIGHT - RADIUSES[2]) * Scale

C13_CollideThenRender ==
    [][/\ pc = "cull" => pc' = "hit"
       /\ pc' = "draw" => pc = "hit"
      ]_vars

\* C13 (amended): an iteration of the loop runs clock.wait, the moves, the
\* cull, the render pass, the event loop and then the collision pass, in
\* that order; the render pass changes nothing and shows the balls as the
\* cull left them; the next iteration starts when the collision pass is done.
C13_RenderThenCollide ==
    [][/\ pc = "wait" /\ balls # <<>> => pc' = "move"
       /\ pc = "move" => pc' = "cull"
       /\ pc = "cull" => pc' = "draw"
       /\ pc = "draw" =>
            /\ pc' = "events"
            /\ balls' = balls /\ paddle' = paddle /\ clock' = clock
            /\ launched' = launched /\ double_speed' = double_speed
       /\ pc = "events" => pc' \in {"hit", "exit"} /\ idx' = 1
       /\ pc = "hit" => pc' \in {"hit", "wait"}
       /\ pc = "hit" /\ pc' = "wait" => idx > Len(balls) /\ balls' = balls
      ]_vars

\* C13 witness: the frame was rendered with the only ball, never hit by the
\* paddle, through the top wall; its collision pass is still to come.
C13_Witness ==
    /\ pc = "events"
    /\ launched
    /\ Len(balls) = 1
    /\ nballs = 1
    /\ balls[1].radius = RADIUSES[1]
    /\ balls[1].y < balls[1].radius * Scale

\* C14: add_result accepts (returns True, one entry more in _scores, which
\* stays sorted with the longest time first, one line more in the file)
\* only when _scores holds fewer than 3 entries or the time exceeds the
\* third best; otherwise it returns False; whenever it does not return True
\* (rejected, or the prompt cancelled) _scores and the file are as before.
C14_AcceptsOnlyBetter ==
    [][pc' = "s_add" =>
        LET before  == scorecounter._scores
            after   == scorecounter'._scores
            seconds == result'.seconds
            good    == \/ Len(before) < MAX_SCORES
                       \/ seconds > before[MAX_SCORES].seconds
        IN  /\ ~good => result'.added = "False"
            /\ result'.added = "True" =>
                  /\ good
                  /\ Len(after) = Len(before) + 1
                  /\ \A i, j \in DOMAIN after :
                        i < j => after[i].seconds >= after[j].seconds
                  /\ \E i \in DOMAIN after : after[i].seconds = seconds
                  /\ Len(scorecounter'.file) = Len(scorecounter.file) + 1
            /\ result'.added # "True" => scorecounter' = scorecounter
       ]_vars

\* C15: a wall response does not leave the ball heading into a wall that
\* one hitcheck hit: after the left wall the angle is in [0, 90) or
\* (270, 360), after the right wall in (90, 270), after the top wall in
\* [0, 180], also when two of them ran (the paddle response not among them).
C15_AwayFromWalls ==
    [][HitCheckStep /\ "s" \notin Range(sides') =>
        LET angle == balls'[idx].angle
            hit   == Range(sides')
        IN  /\ "a" \in hit =>
                  \/ 0 <= angle /\ angle < 90 * Scale
                  \/ 270 * Scale < angle /\ angle < 360 * Scale
            /\ "d" \in hit => 90 * Scale < angle /\ angle < 270 * Scale
            /\ "w" \in hit => 0 <= angle /\ angle <= 180 * Scale
       ]_vars

\* C15 witness: a ball in the top left corner has had the left-wall and the
\* top-wall response in one hitcheck and heads down and right.
C15_Witness ==
    /\ pc = "hit"
    /\ idx > 1
    /\ sides = <<"a", "w">>
    /\ Checked.x = Checked.radius * Scale
    /\ Checked.y = Checked.radius * Scale
    /\ 0 < Checked.angle
    /\ Checked.angle < 90 * Scale

\* C16: after the paddle response alone, of a ball that came down (angle in
\* (0, 180)) within (radius + width + radius)/2 of the paddle's centre, the
\* ball heads up: its angle is in (180, 360).
C16_PaddleSendsUp ==
    [][HitCheckStep /\ sides' = <<"s">>
       /\ 0 < balls[idx].angle /\ balls[idx].angle < 180 * Scale
       /\ 2 * Abs(balls[idx].x - paddle.x * Scale)
              < (balls[idx].radius + paddle.width + balls[idx].radius) * Scale
       => /\ 180 * Scale < balls'[idx].angle
          /\ balls'[idx].angle < 360 * Scale
      ]_vars

\* C17: the time handed to add_result when a run() ends is the time of the
\* frames ticked while launched in that run().
C17_SubmitsThisRound == pc = "over" => result.seconds = result.ticks

\* C18: after any presses and releases of the direction keys the paddle's
\* direction is -1, 0 or 1; it is 0 when none of the keys is down and not 0
\* when one is; -1 when only left keys are down, 1 when only right keys are.
C18_DirectionFollowsHeld ==
    LET left  == Held(keys) \cap {"LEFT", "a"} # {}
        right == Held(keys) \cap {"RIGHT", "d"} # {}
    IN  /\ paddle.direction \in {-1, 0, 1}
        /\ ~left /\ ~right => paddle.direction = 0
        /\ left \/ right => paddle.direction # 0
        /\ left /\ ~right => paddle.direction = -1
        /\ right /\ ~left => paddle.direction = 1

\* C19: when the collision pass of a launched frame is done no ball
\* overlaps a wall: radius <= x <= width - radius and y >= radius.
C19_InsideWalls ==
    pc = "wait" /\ launched =>
        \A k \in DOMAIN balls :
            /\ balls[k].radius * Scale <= balls[k].x
            /\ balls[k].x <= (ArenaWidth - balls[k].radius) * Scale
            /\ balls[k].y >= balls[k].radius * Scale

====
